---- MODULE Spec2Model ----
(***************************************************************************)
(* Quick Notes: the GitHub synchronisation engine (GitHubSyncManager), the *)
(* local store that feeds it (NotesDataManager) and the callers in         *)
(* extension.js (activation pull, auto-sync timer, syncNow command).       *)
(*                                                                         *)
(* JavaScript runs each handler to completion between awaits, so one       *)
(* action is one run-to-completion segment: from a call or a network       *)
(* response up to the next point where the code waits for the network.     *)
(* An HTTP request is processed by the store at one moment and its         *)
(* response is handled by the client at a later one; the client may see a  *)
(* failure (network error, timeout, authentication) before or after the    *)
(* store has processed the request.                                        *)
(***************************************************************************)
EXTENDS Integers, Sequences, FiniteSets, TLC

(***************************************************************************)
(* Bounds of the model.                                                    *)
(***************************************************************************)
\* version tokens the store can hand out (accepted writes plus writes in flight)
MaxIds == 3
\* events of the environment: edits made by the user, writes made by another
\* client, and sync calls started by the timer or the user
MaxEvents == 3

(***************************************************************************)
(* Values.                                                                 *)
(***************************************************************************)
\* JavaScript null: pull() returns it when notes.json does not exist
Null == [null |-> TRUE]

\* a notes.json whose content does not decode to JSON (JSON.parse throws)
Garbage == [garbage |-> TRUE]

\* fileSha === null: no version token is held
NoSha == 0

\* new Date(undefined).getTime()
NaN == -1

\* the two places a sync call comes from: the setInterval callback and syncNow
Callers == {"timer", "user"}

Has(r, k) == k \in DOMAIN r

(***************************************************************************)
(* Merge engine: GitHubSyncManager.mergeData and _mergeNotes.              *)
(***************************************************************************)
\* new Date(note.updatedAt || note.createdAt).getTime(); 0 and absent are falsy
TimeOf(note) ==
    IF Has(note, "updatedAt") /\ note.updatedAt # 0 THEN note.updatedAt
    ELSE IF Has(note, "createdAt") /\ note.createdAt # 0 THEN note.createdAt
    ELSE NaN

\* localTime >= remoteTime on JavaScript numbers: false when either is NaN
TimeGe(a, b) == a # NaN /\ b # NaN /\ a >= b

\* index of the entry of a Map (kept as a sequence in insertion order) with this key
IndexOfId(m, id) ==
    IF \E i \in 1..Len(m) : m[i].id = id
    THEN CHOOSE i \in 1..Len(m) : m[i].id = id
    ELSE 0

\* faulty variant: the fields of the note are assigned onto the entry already held
MapSetAssign(m, note) ==
    LET i == IndexOfId(m, note.id)
    IN  IF i = 0 THEN Append(m, note)
        ELSE [m EXCEPT ![i] = [k \in DOMAIN m[i] \cup DOMAIN note |->
                                  IF k \in DOMAIN note THEN note[k] ELSE m[i][k]]]

\* faulty variant: set() adds an entry even when the key is present
MapSetAppend(m, note) == Append(m, note)

\* Map.set(note.id, note): replaces in place, or inserts at the end
MapSet(m, note) ==
    LET i == IndexOfId(m, note.id)
    IN  IF i = 0 THEN Append(m, note) ELSE [m EXCEPT ![i] = note]

RECURSIVE AddRemoteNotes(_, _)
AddRemoteNotes(m, notes) ==
    IF notes = <<>> THEN m
    ELSE AddRemoteNotes(MapSet(m, Head(notes)), Tail(notes))

\* faulty variant: the local note replaces the existing one only when strictly newer
LocalWinsStrict(note, existing) ==
    TimeGe(TimeOf(note), TimeOf(existing)) /\ TimeOf(note) # TimeOf(existing)

\* the comparison that decides whether the local note replaces the existing one
LocalWins(note, existing) == TimeGe(TimeOf(note), TimeOf(existing))

RECURSIVE OverrideWithLocal(_, _)
OverrideWithLocal(m, notes) ==
    IF notes = <<>> THEN m
    ELSE LET note == Head(notes)
             i == IndexOfId(m, note.id)
             m2 == IF i = 0 THEN MapSet(m, note)
                   ELSE IF LocalWins(note, m[i]) THEN MapSet(m, note)
                   ELSE m
         IN  OverrideWithLocal(m2, Tail(notes))

\* faulty variant: the two arrays are concatenated, no Map is used
mergeNotesConcat(localNotes, remoteNotes) == remoteNotes \o localNotes

\* faulty variant: the remote notes are left out
mergeNotesLocalOnly(localNotes, remoteNotes) == localNotes

\* _mergeNotes: the Map filled with the remote notes, then with the local ones
mergeNotes(localNotes, remoteNotes) ==
    OverrideWithLocal(AddRemoteNotes(<<>>, remoteNotes), localNotes)

\* project.notes || []
NotesOf(project) == IF Has(project, "notes") THEN project.notes ELSE <<>>

\* faulty variant: { ...localProject, ...remoteProject, notes: merged notes }
MergeProjectRemoteScalars(localProject, remoteProject) ==
    [k \in DOMAIN remoteProject \cup DOMAIN localProject \cup {"notes"} |->
        IF k = "notes" THEN mergeNotes(NotesOf(localProject), NotesOf(remoteProject))
        ELSE IF k \in DOMAIN remoteProject THEN remoteProject[k]
        ELSE localProject[k]]

\* { ...remoteProject, ...localProject, notes: merged notes }
MergeProject(localProject, remoteProject) ==
    [k \in DOMAIN remoteProject \cup DOMAIN localProject \cup {"notes"} |->
        IF k = "notes" THEN mergeNotes(NotesOf(localProject), NotesOf(remoteProject))
        ELSE IF k \in DOMAIN localProject THEN localProject[k]
        ELSE remoteProject[k]]

\* faulty variant: the loop runs over the local keys only
MergeProjectMapLocalKeys(localMap, remoteMap) ==
    [p \in DOMAIN localMap |->
        IF p \in DOMAIN remoteMap
        THEN MergeProject(localMap[p], remoteMap[p])
        ELSE localMap[p]]

\* one of the two loops of mergeData, over the union of the keys
MergeProjectMap(localMap, remoteMap) ==
    [p \in DOMAIN localMap \cup DOMAIN remoteMap |->
        IF p \in DOMAIN localMap /\ p \in DOMAIN remoteMap
        THEN MergeProject(localMap[p], remoteMap[p])
        ELSE IF p \in DOMAIN localMap THEN localMap[p] ELSE remoteMap[p]]

\* data.projects || {} and data.archivedProjects || {}
MapOf(data, key) == IF Has(data, key) THEN data[key] ELSE <<>>

\* localData.version || remoteData.version || '1.0.0'
MergedVersion(localData, remoteData) ==
    IF Has(localData, "version") /\ localData.version # "" THEN localData.version
    ELSE IF Has(remoteData, "version") /\ remoteData.version # "" THEN remoteData.version
    ELSE "1.0.0"

\* faulty variant: an absent local snapshot is returned as it is
mergeDataAbsentLocal(localData, remoteData) ==
    IF remoteData = Null THEN localData
    ELSE IF localData = Null THEN localData
    ELSE [version |-> MergedVersion(localData, remoteData),
          projects |->
              MergeProjectMap(MapOf(localData, "projects"), MapOf(remoteData, "projects")),
          archivedProjects |->
              MergeProjectMap(MapOf(localData, "archivedProjects"),
                              MapOf(remoteData, "archivedProjects"))]

\* mergeData: the two early returns, then the merged object
mergeData(localData, remoteData) ==
    IF remoteData = Null THEN localData
    ELSE IF localData = Null THEN remoteData
    ELSE [version |-> MergedVersion(localData, remoteData),
          projects |->
              MergeProjectMap(MapOf(localData, "projects"), MapOf(remoteData, "projects")),
          archivedProjects |->
              MergeProjectMap(MapOf(localData, "archivedProjects"),
                              MapOf(remoteData, "archivedProjects"))]

(***************************************************************************)
(* Local store: NotesDataManager.                                          *)
(***************************************************************************)
\* getData()'s default: the snapshot created on first local use
EmptySnapshot == [version |-> "1.0.0", projects |-> <<>>, archivedProjects |-> <<>>]

\* the note addNote builds
NewNote(id, content, now) ==
    [id |-> id, content |-> content, priority |-> "medium", completed |-> FALSE,
     createdAt |-> now, updatedAt |-> now]

addNote(data, projectId, id, content, now) ==
    [data EXCEPT !.projects[projectId].notes = Append(@, NewNote(id, content, now))]

\* { ...note, ...updates, updatedAt: now } at the note's index
updateNote(data, projectId, noteId, content, now) ==
    LET notes == data.projects[projectId].notes
        i == IndexOfId(notes, noteId)
    IN  [data EXCEPT !.projects[projectId].notes[i] =
            [@ EXCEPT !.content = content, !.updatedAt = now]]

\* obj[k] = v on an object used as a map
MapPut(m, k, v) == [x \in DOMAIN m \cup {k} |-> IF x = k THEN v ELSE m[x]]

\* delete obj[k]
MapDelete(m, k) == [x \in (DOMAIN m) \ {k} |-> m[x]]

\* { ...a, ...b }
Spread(a, b) == [k \in DOMAIN a \cup DOMAIN b |-> IF k \in DOMAIN b THEN b[k] ELSE a[k]]

\* what the addProject command passes to ensureProject (name, icon and color are
\* fixed by the path)
ProjectInfo(path) ==
    [name |-> "proj", path |-> path, icon |-> "folder", color |-> "charts.blue"]

ensureProject(data, projectId, projectInfo, now) ==
    IF projectId \notin DOMAIN data.projects
    THEN [data EXCEPT !.projects =
            MapPut(@, projectId, Spread(projectInfo, [notes |-> <<>>, createdAt |-> now]))]
    ELSE [data EXCEPT !.projects[projectId] =
            Spread(Spread(@, projectInfo), [notes |-> @.notes])]

\* notes.filter(n => n.id !== noteId)
RECURSIVE FilterOut(_, _)
FilterOut(notes, noteId) ==
    IF notes = <<>> THEN <<>>
    ELSE IF Head(notes).id = noteId THEN FilterOut(Tail(notes), noteId)
    ELSE <<Head(notes)>> \o FilterOut(Tail(notes), noteId)

deleteNote(data, projectId, noteId) ==
    [data EXCEPT !.projects[projectId].notes = FilterOut(@, noteId)]

removeProject(data, projectId) ==
    [data EXCEPT !.projects = MapDelete(@, projectId)]

\* { ...project, archivedAt: now }
Archived(project, now) == Spread(project, [archivedAt |-> now])

archiveProject(data, projectId, now) ==
    IF projectId \in DOMAIN data.projects
    THEN [data EXCEPT
            !.archivedProjects = MapPut(@, projectId, Archived(data.projects[projectId], now)),
            !.projects = MapDelete(@, projectId)]
    ELSE data

restoreProject(data, projectId) ==
    IF projectId \in DOMAIN data.archivedProjects
    THEN [data EXCEPT
            !.projects = MapPut(@, projectId,
                                MapDelete(data.archivedProjects[projectId], "archivedAt")),
            !.archivedProjects = MapDelete(@, projectId)]
    ELSE data

deleteArchivedProject(data, projectId) ==
    [data EXCEPT !.archivedProjects = MapDelete(@, projectId)]

(***************************************************************************)
(* The snapshots the model starts from and the edits it draws from.        *)
(***************************************************************************)
Doc0 ==
    [version |-> "1.0.0",
     projects |-> [p \in {"p1"} |->
        [name |-> "proj", createdAt |-> 1, notes |-> <<NewNote("n1", "a", 1)>>]],
     archivedProjects |-> <<>>]

\* ids generateId() hands out, in order
LocalIds == <<"l1", "l2", "l3", "l4", "l5", "l6">>

\* what another client writes: the document it read, with note n1 rewritten
OtherEdit(data, now) ==
    IF data = Null \/ data = Garbage THEN
        [Doc0 EXCEPT !.projects["p1"].notes = <<NewNote("n1", "r", now)>>]
    ELSE updateNote(data, "p1", "n1", "r", now)

(***************************************************************************)
(* State.                                                                  *)
(***************************************************************************)
VARIABLES
    repoUrl,    \* quickNotes.sync.repoUrl: "" | "invalid" | "valid"
    act,        \* activate(): [pc, resp], the pull made on activation
    fileSha,    \* GitHubSyncManager.fileSha
    isSyncing,  \* GitHubSyncManager._isSyncing
    stored,     \* globalState['quickNotes.data']
    storedInc,  \* history: the remote versions whose content stored descends from
    remote,     \* notes.json in the repository: [sha, data, inc]
    ids,        \* version tokens in use: versions written, and writes in flight
    calls,      \* one record per caller: the sync call it has in flight or ended
    puts,       \* PUT requests in flight
    nEdits,     \* local edits made
    nOther,     \* writes made by the other client
    nCalls,     \* sync calls started
    mPc,        \* the merge under study: "start" before the call, "merged" after it
    mLocal,     \* the caller's local snapshot (mergeData's first argument)
    mRemote,    \* the caller's remote snapshot (mergeData's second argument)
    mOut,       \* what the call returned
    deleted,    \* history: ids of the notes and projects deleted since the last import
    archived0,  \* history: the snapshot before the archiveProject just made, and its project
    interval,   \* quickNotes.sync.autoSyncInterval, in minutes
    timerSet,   \* autoSyncTimer is set
    cur,        \* the call of the manager under study, its request and what it emitted
    nCfg,       \* changes of the settings made
    peer,       \* the local snapshot of a second client
    turn,       \* the client that syncs next
    wire        \* the content field of a PUT body or of a GET response

\* the state of the studies of single calls, of two clients and of the encoding
studyVars == <<interval, timerSet, cur, nCfg, peer, turn, wire>>

\* the state outside the sync engine: the merge under study and the other studies
mergeVars == <<mPc, mLocal, mRemote, mOut, deleted, archived0, studyVars>>

\* the state of the sync engine apart from the local store
engineVars == <<repoUrl, act, fileSha, isSyncing, storedInc, remote, ids, calls, puts,
                nOther, studyVars>>

vars == <<repoUrl, act, fileSha, isSyncing, stored, storedInc, remote, ids, calls,
          puts, nEdits, nOther, nCalls, mPc, mLocal, mRemote, mOut, deleted,
          archived0, interval, timerSet, cur, nCfg, peer, turn, wire>>

\* the events of the environment so far
Events == nEdits + nOther + nCalls

\* a request the store has not processed yet
Pending == [pending |-> TRUE]

\* the clock new Date() reads: it advances with every edit
Now == 2 + nEdits + nOther

\* faulty variant: the URL is not looked at
isConfiguredAlways == TRUE

\* isConfigured(): repoUrl.length > 0
isConfigured == repoUrl # ""

\* faulty variant: any configured URL is taken
RepoParsesAny == repoUrl # ""

\* _parseRepo() returns (it throws on any other configured URL)
RepoParses == repoUrl = "valid"

FreeIds == (1..MaxIds) \ ids

FreshId == CHOOSE n \in FreeIds : \A m \in FreeIds : n <= m

\* the failures _apiRequest rejects with, other than an HTTP status of the store:
\* "auth" is getSession failing, before the request is sent; "transport" is a
\* network error, a timeout or an error status, before or after the store acted
FailKinds == {"auth", "transport"}

\* whether a request that the store has (not) processed can fail this way
CanFail(kind, processed) == kind = "auth" => ~processed

\* a sync call: where it is (pc, attempt, resp), what it holds (localData, merged)
\* and its history: the requests it issued (nFetch, nWrite) and how each ended
\* (fouts, outs), the last response it decoded (fetched), the token of its last
\* PUT (putSha), the write the store accepted from it (accepted, acceptedRid),
\* how it ended (result, ret, err, errFrom) and the token held when it ended
IdleCall ==
    [pc |-> "idle", attempt |-> 0, localData |-> Null, localInc |-> {},
     resp |-> Pending, fetched |-> Pending, merged |-> Null, mergedInc |-> {},
     nFetch |-> 0, nWrite |-> 0, fouts |-> <<>>, outs |-> <<>>, putSha |-> NoSha,
     accepted |-> Null, acceptedRid |-> NoSha,
     result |-> "none", ret |-> Null, err |-> "none", errFrom |-> "none",
     heldAtEnd |-> NoSha]

\* a sync call is between the start of its first fetch and the end of its last write
InFlight(c) == calls[c].pc \in {"pull", "push"}

\* what a GET of notes.json answers when the store processes it
GetAnswer ==
    [status |-> IF remote.sha = NoSha THEN "404" ELSE "200",
     sha |-> remote.sha, data |-> remote.data, inc |-> remote.inc]

\* nothing else is under study
NoStudy ==
    /\ archived0 = Null
    /\ interval = 5
    /\ timerSet = FALSE
    /\ cur = Null
    /\ nCfg = 0
    /\ peer = Null
    /\ turn = "none"
    /\ wire = <<>>

\* no merge is under study
NoMerge ==
    /\ NoStudy
    /\ mPc = "start"
    /\ mLocal = Null
    /\ mRemote = Null
    /\ mOut = Pending
    /\ deleted = {}

Init ==
    /\ NoMerge
    /\ repoUrl \in {"", "invalid", "valid"}
    /\ act = [pc |-> "init", resp |-> Pending]
    /\ fileSha = NoSha
    /\ isSyncing = FALSE
    /\ stored = Doc0
    /\ \E exists \in BOOLEAN :
        IF exists
        THEN /\ remote = [sha |-> 1, data |-> Doc0, inc |-> {1}]
             /\ ids = {1}
             /\ storedInc = {1}
        ELSE /\ remote = [sha |-> NoSha, data |-> Null, inc |-> {}]
             /\ ids = {}
             /\ storedInc = {}
    /\ calls = [c \in Callers |-> IdleCall]
    /\ puts = {}
    /\ nEdits = 0
    /\ nOther = 0
    /\ nCalls = 0

(***************************************************************************)
(* Activation: extension.js activate(), the pull before anything else is   *)
(* registered.                                                             *)
(***************************************************************************)
ActStart ==
    /\ act.pc = "init"
    /\ act' = [pc |-> IF isConfigured /\ RepoParses THEN "pull" ELSE "done",
               resp |-> Pending]
    /\ UNCHANGED <<mergeVars, repoUrl, fileSha, isSyncing, stored, storedInc, remote, ids,
                   calls, puts, nEdits, nOther, nCalls>>

ActServerGet ==
    /\ act.pc = "pull"
    /\ act.resp = Pending
    /\ act' = [act EXCEPT !.resp = GetAnswer]
    /\ UNCHANGED <<mergeVars, repoUrl, fileSha, isSyncing, stored, storedInc, remote, ids,
                   calls, puts, nEdits, nOther, nCalls>>

\* the request fails: pull() rethrows, activate() logs it
ActPullFail ==
    /\ act.pc = "pull"
    /\ act' = [pc |-> "done", resp |-> Pending]
    /\ UNCHANGED <<mergeVars, repoUrl, fileSha, isSyncing, stored, storedInc, remote, ids,
                   calls, puts, nEdits, nOther, nCalls>>

\* the response arrives: pull() stores the token and decodes; activate() merges
\* and imports when the document exists
ActPullResponse ==
    /\ act.pc = "pull"
    /\ act.resp # Pending
    /\ act' = [pc |-> "done", resp |-> Pending]
    /\ fileSha' = act.resp.sha
    /\ IF act.resp.status = "200" /\ act.resp.data # Garbage
       THEN /\ stored' = mergeData(stored, act.resp.data)
            /\ storedInc' = storedInc \cup act.resp.inc
       ELSE UNCHANGED <<stored, storedInc>>
    /\ UNCHANGED <<mergeVars, repoUrl, isSyncing, remote, ids, calls, puts, nEdits, nOther,
                   nCalls>>

(***************************************************************************)
(* GitHubSyncManager: push, pull and sync.                                 *)
(***************************************************************************)
\* faulty variant: push() without its in-flight check
PushNeverSkips == FALSE

\* push(): if (this._isSyncing) return
PushSkips == isSyncing

\* faulty variant: every error status is taken for a conflict
IsConflictAny(status) == TRUE

\* push()'s catch: err.message.includes('409'), on "GitHub API error <status>"
IsConflict(status) == status = "409"

\* faulty variant: the retry is itself retried
RetryAlways(attempt) == TRUE

\* sync(): the retry is written inside the catch block, so what it throws is
\* not caught again: only the first attempt is retried
RetryAllowed(attempt) == attempt = 1

\* faulty variant: the flag is cleared at the end of the try block only
FlagKeptOnError(outcome) == outcome # "200"

\* push()'s finally: this._isSyncing = false, however the push ended
FlagAfterPush(outcome) == FALSE

\* body.sha = this.fileSha when one is held, read when push() starts
PutSha(held) == held

\* faulty variant: a conflict makes the manager take the token of the current
\* version without fetching its content
ShaTakenOnConflict(held, kind) == IF kind = "409" THEN remote.sha ELSE held

\* faulty variant: a failed request drops the token
ShaDroppedAfterFailure(held, kind) == NoSha

\* this.fileSha after a request failed: no assignment is reached
ShaAfterFailure(held, kind) == held

\* this.fileSha = result.data.content.sha
ShaAfterWrite(held, returned) == returned

\* faulty variant: the retry pushes the snapshot merged by the first attempt
MergedStale(call, remoteData) ==
    IF call.attempt = 2 THEN call.merged ELSE mergeData(call.localData, remoteData)

\* sync(): const merged = this.mergeData(localData, remoteData), on both attempts
MergedFor(call, remoteData) == mergeData(call.localData, remoteData)

\* the PUT push() sends for owner; duringSync: a sync call was in flight then
NewPut(owner, data, inc, held) ==
    [owner |-> owner, rid |-> FreshId, sha |-> PutSha(held), data |-> data,
     inc |-> inc \cup {FreshId}, phase |-> "sent",
     duringSync |-> \E c \in Callers : InFlight(c),
     replaced |-> Pending]

\* sync() returns data; the caller imports it
Returned(call, data, held) ==
    [call EXCEPT !.pc = "done", !.result = "returned", !.ret = data,
                 !.resp = Pending, !.heldAtEnd = held]

\* sync() throws
Raised(call, kind, from, held) ==
    [call EXCEPT !.pc = "done", !.result = "raised", !.err = kind,
                 !.errFrom = from, !.resp = Pending, !.heldAtEnd = held]

\* a write that the store never accepted leaves no version behind
Scrub(cs, rid) ==
    [c \in Callers |-> [cs[c] EXCEPT !.localInc = @ \ {rid}, !.mergedInc = @ \ {rid}]]

\* the timer callback or syncNow: exportData(), then sync() up to its first request
SyncStart(c) ==
    /\ act.pc = "done"
    /\ isConfigured
    /\ calls[c].pc \in {"idle", "done"}
    /\ Events < MaxEvents
    /\ nCalls' = nCalls + 1
    /\ LET call == [IdleCall EXCEPT !.localData = stored, !.localInc = storedInc,
                                    !.attempt = 1]
       IN  calls' = [calls EXCEPT ![c] =
                IF RepoParses THEN [call EXCEPT !.pc = "pull", !.nFetch = 1]
                ELSE Raised(call, "config", "fetch", fileSha)]
    /\ UNCHANGED <<mergeVars, repoUrl, act, fileSha, isSyncing, stored, storedInc, remote, ids,
                   puts, nEdits, nOther>>

\* the store answers the GET of a sync call
SyncServerGet(c) ==
    /\ calls[c].pc = "pull"
    /\ calls[c].resp = Pending
    /\ calls' = [calls EXCEPT ![c].resp = GetAnswer]
    /\ UNCHANGED <<mergeVars, repoUrl, act, fileSha, isSyncing, stored, storedInc, remote, ids,
                   puts, nEdits, nOther, nCalls>>

\* the GET fails: pull() rethrows and sync() throws (the error carries no isConflict)
SyncPullFail(c, kind) ==
    /\ calls[c].pc = "pull"
    /\ CanFail(kind, calls[c].resp # Pending)
    /\ fileSha' = ShaAfterFailure(fileSha, kind)
    /\ calls' = [calls EXCEPT ![c] =
            Raised([@ EXCEPT !.fouts = Append(@, kind)], kind, "fetch", fileSha')]
    /\ UNCHANGED <<mergeVars, repoUrl, act, isSyncing, stored, storedInc, remote, ids, puts,
                   nEdits, nOther, nCalls>>

\* the GET's response arrives: pull() stores the token and decodes, sync() merges
\* and calls push(), which returns at once (skipped) or sends the PUT
SyncPullResponse(c) ==
    LET call == calls[c]
        r == call.resp
        remoteData == IF r.status = "404" THEN Null ELSE r.data
        decodes == ~(r.status = "200" /\ r.data = Garbage)
        merged == MergedFor(call, remoteData)
        inc == call.localInc \cup r.inc
        fetched == [call EXCEPT !.fetched = r, !.resp = Pending,
                                !.fouts = Append(@, IF decodes THEN r.status ELSE "decode")]
        put == NewPut(c, merged, inc, r.sha)
    IN  /\ call.pc = "pull"
        /\ r # Pending
        /\ fileSha' = r.sha
        /\ IF ~decodes
           THEN /\ calls' = [calls EXCEPT ![c] = Raised(fetched, "decode", "fetch", r.sha)]
                /\ UNCHANGED <<isSyncing, stored, storedInc, ids, puts>>
           ELSE IF PushSkips
           THEN /\ calls' = [calls EXCEPT ![c] =
                        Returned([fetched EXCEPT !.merged = merged, !.mergedInc = inc],
                                 merged, r.sha)]
                /\ stored' = calls'[c].ret
                /\ storedInc' = inc
                /\ UNCHANGED <<isSyncing, ids, puts>>
           ELSE /\ FreeIds # {}
                /\ isSyncing' = TRUE
                /\ puts' = puts \cup {put}
                /\ ids' = ids \cup {put.rid}
                /\ calls' = [calls EXCEPT ![c] =
                        [fetched EXCEPT !.pc = "push", !.merged = merged,
                                        !.mergedInc = put.inc, !.nWrite = @ + 1,
                                        !.putSha = put.sha]]
                /\ UNCHANGED <<stored, storedInc>>
        /\ UNCHANGED <<mergeVars, repoUrl, act, remote, nEdits, nOther, nCalls>>

\* the store processes a PUT: it accepts it when the token sent is the current
\* one (none for a document that does not exist) and rejects it otherwise, with
\* 409 for a stale token and 409 or 422 for a missing one
ServerPut(p, status) ==
    /\ p \in puts
    /\ p.phase = "sent"
    /\ IF p.sha = remote.sha THEN status = "200"
       ELSE IF p.sha # NoSha THEN status = "409"
       ELSE status \in {"409", "422"}
    /\ puts' = (puts \ {p}) \cup
                {[p EXCEPT !.phase = status,
                           !.replaced = IF status = "200" THEN remote ELSE @]}
    /\ IF status = "200"
       THEN /\ remote' = [sha |-> p.rid, data |-> p.data, inc |-> p.inc]
            /\ calls' = IF p.owner \in Callers
                        THEN [calls EXCEPT ![p.owner].accepted = p.data,
                                           ![p.owner].acceptedRid = p.rid]
                        ELSE calls
       ELSE UNCHANGED <<remote, calls>>
    /\ UNCHANGED <<mergeVars, repoUrl, act, fileSha, isSyncing, stored, storedInc, ids, nEdits,
                   nOther, nCalls>>

\* what is left of the in-flight writes and of the histories once p has ended
PutsAfter(p) ==
    IF p.phase = "200" THEN puts \ {p}
    ELSE {[q EXCEPT !.inc = @ \ {p.rid}] : q \in puts \ {p}}

IdsAfter(p) == IF p.phase = "200" THEN ids ELSE ids \ {p.rid}

IncAfter(p, inc) == IF p.phase = "200" THEN inc ELSE inc \ {p.rid}

CallsAfter(p, cs) == IF p.phase = "200" THEN cs ELSE Scrub(cs, p.rid)

\* the PUT fails at the client (before or after the store processed it):
\* push() fires 'error', rethrows and clears the flag; sync() throws
PutFail(p, kind) ==
    /\ p \in puts
    /\ CanFail(kind, p.phase # "sent")
    /\ fileSha' = ShaAfterFailure(fileSha, kind)
    /\ isSyncing' = FlagAfterPush(kind)
    /\ puts' = PutsAfter(p)
    /\ ids' = IdsAfter(p)
    /\ storedInc' = IncAfter(p, storedInc)
    /\ calls' = CallsAfter(p,
            IF p.owner \in Callers
            THEN [calls EXCEPT ![p.owner] =
                    Raised([@ EXCEPT !.outs = Append(@, kind)], kind, "write", fileSha')]
            ELSE calls)
    /\ UNCHANGED <<mergeVars, repoUrl, act, stored, remote, nEdits, nOther, nCalls>>

\* the PUT's success response arrives: push() stores the new token and clears the
\* flag; sync() returns merged, which its caller imports
PutSucceeds(p) ==
    /\ p \in puts
    /\ p.phase = "200"
    /\ fileSha' = ShaAfterWrite(fileSha, p.rid)
    /\ isSyncing' = FlagAfterPush("200")
    /\ puts' = puts \ {p}
    /\ IF p.owner \in Callers
       THEN /\ calls' = [calls EXCEPT ![p.owner] =
                    Returned([@ EXCEPT !.outs = Append(@, "200")], @.merged, fileSha')]
            /\ stored' = calls'[p.owner].ret
            /\ storedInc' = calls[p.owner].mergedInc
       ELSE UNCHANGED <<calls, stored, storedInc>>
    /\ UNCHANGED <<mergeVars, repoUrl, act, remote, ids, nEdits, nOther, nCalls>>

\* the PUT's rejection arrives: push() fires 'error', marks a 409 as a conflict,
\* rethrows and clears the flag; sync() retries a conflict of its first attempt
\* with a new pull() and throws anything else
PutRejected(p) ==
    /\ p \in puts
    /\ p.phase \in {"409", "422"}
    /\ fileSha' = ShaAfterFailure(fileSha, p.phase)
    /\ isSyncing' = FlagAfterPush(p.phase)
    /\ puts' = PutsAfter(p)
    /\ ids' = IdsAfter(p)
    /\ storedInc' = IncAfter(p, storedInc)
    /\ calls' = CallsAfter(p,
            IF p.owner \in Callers
            THEN [calls EXCEPT ![p.owner] =
                    LET call == [@ EXCEPT !.outs = Append(@, p.phase)]
                    IN  IF IsConflict(p.phase) /\ RetryAllowed(call.attempt)
                        THEN [call EXCEPT !.pc = "pull", !.attempt = @ + 1,
                                          !.nFetch = @ + 1, !.resp = Pending]
                        ELSE Raised(call, p.phase, "write", fileSha')]
            ELSE calls)
    /\ UNCHANGED <<mergeVars, repoUrl, act, stored, remote, nEdits, nOther, nCalls>>

(***************************************************************************)
(* The user's edits (addNote, updateNote) with saveData's background push, *)
(* and the other client.                                                   *)
(***************************************************************************)
\* faulty variant: the store keeps the new data only when a push was sent
StoredWhenPushed(old, data, pushed) == IF pushed THEN data ELSE old

\* saveData: what globalState holds after `await globalState.update(key, data)`,
\* which precedes the push and is never undone
StoredAfterSave(old, data, pushed) == data

\* a CRUD operation and its saveData: the store is updated, then push(data) is
\* called without being awaited
Edit(op) ==
    /\ act.pc = "done"
    /\ Events < MaxEvents
    /\ "p1" \in DOMAIN stored.projects
    /\ op = "updateNote" => IndexOfId(stored.projects["p1"].notes, "n1") # 0
    /\ nEdits' = nEdits + 1
    /\ LET data == IF op = "addNote"
                   THEN addNote(stored, "p1", LocalIds[nEdits + 1], "l", Now)
                   ELSE updateNote(stored, "p1", "n1", "l", Now)
           put == NewPut("bg", data, storedInc, fileSha)
       IN  /\ stored' = StoredAfterSave(stored, data,
                                         isConfigured /\ RepoParses /\ ~PushSkips)
           /\ IF isConfigured /\ RepoParses /\ ~PushSkips
              THEN /\ FreeIds # {}
                   /\ isSyncing' = TRUE
                   /\ puts' = puts \cup {put}
                   /\ ids' = ids \cup {put.rid}
                   /\ storedInc' = put.inc
              ELSE UNCHANGED <<isSyncing, puts, ids, storedInc>>
    /\ UNCHANGED <<mergeVars, repoUrl, act, fileSha, remote, calls, nOther, nCalls>>

\* another client writes the document: it read the current version and its write
\* is conditioned on it
OtherWrite ==
    /\ Events < MaxEvents
    /\ FreeIds # {}
    /\ nOther' = nOther + 1
    /\ ids' = ids \cup {FreshId}
    /\ remote' = [sha |-> FreshId, data |-> OtherEdit(remote.data, Now),
                  inc |-> remote.inc \cup {FreshId}]
    /\ UNCHANGED <<mergeVars, repoUrl, act, fileSha, isSyncing, stored, storedInc, calls, puts,
                   nEdits, nCalls>>

\* somebody commits a notes.json that is not JSON
OtherGarbage ==
    /\ Events < MaxEvents
    /\ FreeIds # {}
    /\ remote.data # Garbage
    /\ nOther' = nOther + 1
    /\ ids' = ids \cup {FreshId}
    /\ remote' = [sha |-> FreshId, data |-> Garbage, inc |-> remote.inc \cup {FreshId}]
    /\ UNCHANGED <<mergeVars, repoUrl, act, fileSha, isSyncing, stored, storedInc, calls, puts,
                   nEdits, nCalls>>

Next ==
    \/ ActStart
    \/ ActServerGet
    \/ ActPullFail
    \/ ActPullResponse
    \/ \E c \in Callers : SyncStart(c)
    \/ \E c \in Callers : SyncServerGet(c)
    \/ \E c \in Callers, kind \in FailKinds : SyncPullFail(c, kind)
    \/ \E c \in Callers : SyncPullResponse(c)
    \/ \E p \in puts, status \in {"200", "409", "422"} : ServerPut(p, status)
    \/ \E p \in puts, kind \in FailKinds : PutFail(p, kind)
    \/ \E p \in puts : PutSucceeds(p)
    \/ \E p \in puts : PutRejected(p)
    \/ \E op \in {"addNote", "updateNote"} : Edit(op)
    \/ OtherWrite
    \/ OtherGarbage

Spec == Init /\ [][Next]_vars

(***************************************************************************)
(* Properties of the sync engine.                                          *)
(***************************************************************************)
\* the remote data a sync call merged with on its last fetch
FetchedData(k) == IF k.fetched.status = "404" THEN Null ELSE k.fetched.data

\* C1: no write accepted by the store replaces a (decodable) remote version whose
\* content the written snapshot does not descend from.
NoLostUpdate ==
    \A p \in puts :
        p.phase = "200" =>
            \/ p.replaced.sha = NoSha
            \/ p.replaced.data = Garbage
            \/ p.replaced.sha \in p.inc

\* C2: two sync calls are never in flight together: a sync invoked while
\* another is between its fetch and the end of its write does not start a fetch.
SyncCallsNeverInterleave ==
    Cardinality({c \in Callers : InFlight(c)}) <= 1

\* C3: a background push sends no write while a sync call is in flight (fetch
\* included), and a sync sends no write while a background push is in flight.
PushNeverConcurrentWithSync ==
    \A p \in puts :
        /\ p.owner = "bg" => ~p.duringSync
        /\ p.owner \in Callers => ~\E q \in puts : q.owner = "bg"

\* C4: a sync call whose first write was rejected with 409 and whose retry's fetch
\* and write succeeded returns merge(local, remote fetched by the retry), and that
\* snapshot was written with the token the retry's fetch obtained.
RetryAfterConflictSucceeds ==
    \A c \in Callers :
        LET k == calls[c]
        IN  k.outs = <<"409", "200">> =>
                /\ k.pc = "done"
                /\ k.result = "returned"
                /\ Len(k.fouts) = 2
                /\ k.ret = mergeData(k.localData, FetchedData(k))
                /\ k.accepted = k.ret
                /\ k.putSha = k.fetched.sha
                /\ k.putSha # NoSha

\* C4 witness: a retry that succeeded with a merged snapshot that is neither the
\* local nor the remote one
RetrySucceeded ==
    \E c \in Callers :
        /\ calls[c].outs = <<"409", "200">>
        /\ calls[c].ret # calls[c].localData
        /\ calls[c].ret # calls[c].fetched.data

\* C5: a sync call issues at most two fetches and two writes; when the retry's
\* write or fetch fails, the call ends raising that error.
AtMostTwoAttempts ==
    \A c \in Callers :
        LET k == calls[c]
        IN  /\ k.nFetch <= 2
            /\ k.nWrite <= 2
            /\ Len(k.fouts) <= 2
            /\ Len(k.outs) <= 2
            /\ (Len(k.outs) = 2 /\ k.outs[2] # "200") =>
                    k.pc = "done" /\ k.result = "raised" /\ k.err = k.outs[2]
            /\ (Len(k.fouts) = 2 /\ k.fouts[2] \notin {"200", "404"}) =>
                    k.pc = "done" /\ k.result = "raised" /\ k.err = k.fouts[2]

\* C5 witness: both writes of a call were rejected with a conflict
ConflictedTwice == \E c \in Callers : calls[c].outs = <<"409", "409">>

SyncReturnsOnlyWhatItWrote ==
    \A c \in Callers : calls[c].result = "returned" => calls[c].accepted = calls[c].ret

\* a step in which a request ends in failure
FailStep ==
    \/ ActPullFail
    \/ \E c \in Callers, kind \in FailKinds : SyncPullFail(c, kind)
    \/ \E p \in puts, kind \in FailKinds : PutFail(p, kind)
    \/ \E p \in puts : PutRejected(p)

\* a step in which a fetch completes, storing the fetched token (none on 404)
FetchCompletes ==
    \/ ActPullResponse /\ fileSha' = act.resp.sha
    \/ \E c \in Callers : SyncPullResponse(c) /\ fileSha' = calls[c].resp.sha

\* a step in which a write is confirmed, storing the token the store returned
WriteConfirmed == \E p \in puts : PutSucceeds(p) /\ fileSha' = p.rid

AtMostOneWriteInFlight == Cardinality(puts) <= 1

\* C9 witness: a background write is in flight and a sync's push was skipped
WriteInFlightAndPushSkipped ==
    /\ \E p \in puts : p.owner = "bg"
    /\ \E c \in Callers : calls[c].result = "returned" /\ calls[c].nWrite = 0

\* C10: a sync call whose fetch found no document and that returned has created
\* the document with an unconditioned write of the local snapshot, returns the
\* local snapshot, and holds the token of that write when it ends.
FirstSyncCreatesDocument ==
    \A c \in Callers :
        LET k == calls[c]
        IN  (k.result = "returned" /\ k.fouts = <<"404">>) =>
                /\ k.fetched.sha = NoSha
                /\ k.ret = k.localData
                /\ k.nWrite = 1
                /\ k.putSha = NoSha
                /\ k.accepted = k.localData
                /\ k.acceptedRid # NoSha
                /\ k.heldAtEnd = k.acceptedRid

(***************************************************************************)
(* The merge engine on its own: mergeData applied to a pair of snapshots   *)
(* drawn from a bounded set.                                               *)
(***************************************************************************)
\* the timestamps of the snapshots drawn
MaxTime == 2

Times == 1..MaxTime

Versions == {"1.0.0", "2.0.0"}

Places == {"none", "active", "archived"}

\* note n1 as the two sides may hold it: either content, any updatedAt, or no
\* updatedAt and any createdAt
N1Notes ==
    {[NewNote("n1", c, 1) EXCEPT !.updatedAt = t] : c \in {"a", "b"}, t \in Times}
    \cup {MapDelete(NewNote("n1", c, t), "updatedAt") : c \in {"a", "b"}, t \in Times}

NoteLists ==
    {<<>>, <<NewNote("n2", "c", 1)>>}
    \cup {<<n>> : n \in N1Notes}
    \cup {<<n, NewNote("n2", "c", 1)>> : n \in N1Notes}

\* a project as ensureProject builds it, holding these notes
ProjectWith(path, notes) ==
    Spread(ProjectInfo(path), [notes |-> notes, createdAt |-> 1])

\* project p1 as the two sides may hold it (its folder may have been relocated)
P1Projects == {ProjectWith(path, notes) : path \in {"/x", "/y"}, notes \in NoteLists}

\* project p2, the same wherever it is held
P2Project == ProjectWith("/q", <<NewNote("n3", "d", 1)>>)

\* the projects or the archivedProjects map of a snapshot that holds p1 and p2
\* at these places
MapAt(place, place1, project1, place2) ==
    [p \in {q \in {"p1", "p2"} : (IF q = "p1" THEN place1 ELSE place2) = place} |->
        LET project == IF p = "p1" THEN project1 ELSE P2Project
        IN  IF place = "archived" THEN Archived(project, 1) ELSE project]

SnapshotOf(version, place1, project1, place2) ==
    [version |-> version,
     projects |-> MapAt("active", place1, project1, place2),
     archivedProjects |-> MapAt("archived", place1, project1, place2)]

\* the well-formed snapshots drawn: every project is held in one map at most
Snapshots ==
    {SnapshotOf(v, place1, project1, place2) :
        v \in Versions, place1 \in Places, project1 \in P1Projects, place2 \in Places}

\* the sync engine at rest, the local store as on first use
EngineAtRest ==
    /\ repoUrl = "valid"
    /\ act = [pc |-> "done", resp |-> Pending]
    /\ fileSha = NoSha
    /\ isSyncing = FALSE
    /\ stored = EmptySnapshot
    /\ storedInc = {}
    /\ remote = [sha |-> NoSha, data |-> Null, inc |-> {}]
    /\ ids = {}
    /\ calls = [c \in Callers |-> IdleCall]
    /\ puts = {}
    /\ nEdits = 0
    /\ nOther = 0
    /\ nCalls = 0

MergeInit ==
    /\ EngineAtRest
    /\ NoStudy
    /\ mPc = "start"
    /\ mLocal \in Snapshots \cup {Null}
    /\ mRemote \in Snapshots \cup {Null}
    /\ mOut = Pending
    /\ deleted = {}

\* one call of mergeData
Merge ==
    /\ mPc = "start"
    /\ mPc' = "merged"
    /\ mOut' = mergeData(mLocal, mRemote)
    /\ UNCHANGED <<engineVars, stored, nEdits, nCalls, mLocal, mRemote, deleted, archived0>>

MergeNext == Merge

MergeSpec == MergeInit /\ [][MergeNext]_vars

(***************************************************************************)
(* _mergeNotes on its own: it is called on every pair of note arrays, the  *)
(* arrays of a fetched document included, which nothing keeps free of      *)
(* repeated ids.                                                           *)
(***************************************************************************)
MaxNotes == 2

\* the notes of the arrays: two ids, either content, either time
AnyNotes ==
    {[NewNote(id, c, 1) EXCEPT !.updatedAt = t] :
        id \in {"n1", "n2"}, c \in {"a", "b"}, t \in {1, 2}}

RECURSIVE ListsUpTo(_)
ListsUpTo(n) ==
    IF n = 0 THEN {<<>>}
    ELSE LET shorter == ListsUpTo(n - 1)
         IN  shorter \cup {Append(l, note) : l \in {k \in shorter : Len(k) = n - 1},
                                             note \in AnyNotes}

\* the note arrays drawn: any order, ids may repeat
AnyNoteLists == ListsUpTo(MaxNotes)

NotesInit ==
    /\ EngineAtRest
    /\ NoStudy
    /\ mPc = "start"
    /\ mLocal \in AnyNoteLists
    /\ mRemote \in AnyNoteLists
    /\ mOut = Pending
    /\ deleted = {}

\* one call of _mergeNotes
MergeNotes ==
    /\ mPc = "start"
    /\ mPc' = "mergedNotes"
    /\ mOut' = mergeNotes(mLocal, mRemote)
    /\ UNCHANGED <<engineVars, stored, nEdits, nCalls, mLocal, mRemote, deleted, archived0>>

NotesNext == MergeNotes

NotesSpec == NotesInit /\ [][NotesNext]_vars

(***************************************************************************)
(* What a snapshot holds.                                                  *)
(***************************************************************************)
MapNames == {"projects", "archivedProjects"}

\* the places of a snapshot where a note sits: <<map, project id, index>>
Slots(data) ==
    UNION {UNION {{<<m, p, i>> : i \in 1..Len(NotesOf(data[m][p]))} : p \in DOMAIN data[m]}
           : m \in MapNames}

NoteAt(data, slot) == data[slot[1]][slot[2]].notes[slot[3]]

SlotsOfId(data, id) == {slot \in Slots(data) : NoteAt(data, slot).id = id}

NoteIds(data) == {NoteAt(data, slot).id : slot \in Slots(data)}

ProjectIds(data) == DOMAIN data.projects \cup DOMAIN data.archivedProjects

\* the notes of a list, as a set
NoteSet(notes) == {notes[i] : i \in 1..Len(notes)}

(***************************************************************************)
(* The local store under the project and note commands, with syncs taken   *)
(* at the moment they return: the snapshot exported, the remote snapshot   *)
(* fetched, their merge written and imported (extension.js 75-77, 387-389).*)
(* The requests themselves are the subject of Spec.                        *)
(***************************************************************************)
\* the folder of each project: the project id is derived from the path
PathOf(projectId) == IF projectId = "p1" THEN "/x" ELSE "/q"

\* the remote snapshots a sync may fetch: each holds p1 and p2 in one map at most
StoreRemotes ==
    {SnapshotOf("1.0.0", place1, ProjectWith("/x", notes), place2) :
        place1 \in Places,
        notes \in {<<>>, <<NewNote("n1", "a", 1)>>},
        place2 \in {"none", "active"}}

StoreInit ==
    /\ EngineAtRest
    /\ NoMerge

\* the commands and syncs of a run of the store
MaxCommands == 4

\* a command changed the store: the last merge is no longer the store's content
AfterCommand(removed) ==
    /\ Events < MaxCommands
    /\ nEdits' = nEdits + 1
    /\ mPc' = "start"
    /\ mLocal' = Null
    /\ mRemote' = Null
    /\ mOut' = Pending
    /\ deleted' = (IF mPc = "merged" THEN {} ELSE deleted) \cup removed
    /\ UNCHANGED <<engineVars, nCalls>>

\* quickNotes.addProject
StoreEnsureProject(p) ==
    /\ stored' = ensureProject(stored, p, ProjectInfo(PathOf(p)), Now)
    /\ archived0' = Null
    /\ AfterCommand({})

\* quickNotes.addNote on a project of the tree
StoreAddNote(p) ==
    /\ p \in DOMAIN stored.projects
    /\ stored' = addNote(stored, p, LocalIds[nEdits + 1], "l", Now)
    /\ archived0' = Null
    /\ AfterCommand({})

\* quickNotes.deleteNote on a note of the tree
StoreDeleteNote(p, noteId) ==
    /\ p \in DOMAIN stored.projects
    /\ IndexOfId(stored.projects[p].notes, noteId) # 0
    /\ stored' = deleteNote(stored, p, noteId)
    /\ archived0' = Null
    /\ AfterCommand({noteId})

\* quickNotes.removeProject on a project of the tree
StoreRemoveProject(p) ==
    /\ p \in DOMAIN stored.projects
    /\ stored' = removeProject(stored, p)
    /\ archived0' = Null
    /\ AfterCommand({p})

\* archive a project of the tree; archived0 keeps the snapshot it was applied to
StoreArchiveProject(p) ==
    /\ p \in DOMAIN stored.projects
    /\ stored' = archiveProject(stored, p, Now)
    /\ archived0' = [projectId |-> p, before |-> stored, restored |-> FALSE]
    /\ AfterCommand({})

\* restore from the archive view; archived0 tells that it follows the archive of p
StoreRestoreProject(p) ==
    /\ p \in DOMAIN stored.archivedProjects
    /\ stored' = restoreProject(stored, p)
    /\ archived0' = IF archived0 # Null /\ archived0.projectId = p /\ ~archived0.restored
                    THEN [archived0 EXCEPT !.restored = TRUE]
                    ELSE Null
    /\ AfterCommand({})

StoreDeleteArchivedProject(p) ==
    /\ p \in DOMAIN stored.archivedProjects
    /\ stored' = deleteArchivedProject(stored, p)
    /\ archived0' = Null
    /\ AfterCommand({p})

\* a sync that returns: exportData(), mergeData with what pull() returned, and
\* importData of the merged snapshot
SyncImport(remoteData) ==
    /\ Events < MaxCommands
    /\ nCalls' = nCalls + 1
    /\ mPc' = "merged"
    /\ mLocal' = stored
    /\ mRemote' = remoteData
    /\ mOut' = mergeData(stored, remoteData)
    /\ stored' = mOut'
    /\ archived0' = Null
    /\ UNCHANGED <<engineVars, nEdits, deleted>>

StoreNext ==
    \/ \E p \in {"p1", "p2"} : StoreEnsureProject(p)
    \/ \E p \in {"p1", "p2"} : StoreAddNote(p)
    \/ \E p \in {"p1", "p2"}, noteId \in NoteIds(stored) : StoreDeleteNote(p, noteId)
    \/ \E p \in {"p1", "p2"} : StoreRemoveProject(p)
    \/ \E p \in {"p1", "p2"} : StoreArchiveProject(p)
    \/ \E p \in {"p1", "p2"} : StoreRestoreProject(p)
    \/ \E p \in {"p1", "p2"} : StoreDeleteArchivedProject(p)
    \/ \E remoteData \in StoreRemotes \cup {Null} : SyncImport(remoteData)

StoreSpec == StoreInit /\ [][StoreNext]_vars

(***************************************************************************)
(* The encoding of a snapshot on its way to the repository and back:       *)
(* push() sends base64(JSON.stringify(data, null, 2)), the Contents API    *)
(* stores the decoded bytes and answers a GET with their base64 text, and  *)
(* pull() decodes the text and parses the JSON. A text is a sequence of    *)
(* bytes; a string of the snapshot is one byte above 127, a time is one    *)
(* digit.                                                                  *)
(***************************************************************************)
\* the strings of the snapshots: keys and values
Symbols ==
    <<"version", "projects", "archivedProjects", "name", "path", "icon", "color",
      "notes", "createdAt", "archivedAt", "id", "content", "completed", "updatedAt",
      "priority", "p1", "p2", "1.0.0", "2.0.0", "proj", "/x", "/y", "/q", "folder",
      "charts.blue", "n1", "n2", "n3", "a", "b", "c", "d", "l", "r", "medium">>

\* the bytes of the JSON syntax
Ch ==
    [quote |-> 34, comma |-> 44, colon |-> 58, lbrace |-> 123, rbrace |-> 125,
     lbracket |-> 91, rbracket |-> 93, true |-> 116, false |-> 102, zero |-> 48,
     nl |-> 10, space |-> 32]

\* the base64 digits are 0..63; '=' and the line feed
B64 == [pad |-> 64, nl |-> 65, width |-> 60]

CodeOf(str) == 127 + (CHOOSE i \in 1..Len(Symbols) : Symbols[i] = str)

\* what the value under a key is
KindOf(key) ==
    IF key \in {"version", "name", "path", "icon", "color", "id", "content", "priority"}
    THEN "string"
    ELSE IF key \in {"createdAt", "updatedAt", "archivedAt"} THEN "time"
    ELSE IF key = "completed" THEN "bool"
    ELSE IF key = "notes" THEN "array"
    ELSE "object"

\* the line feed and the indent that the third argument of JSON.stringify adds
Indent == <<Ch.nl, Ch.space, Ch.space>>

RECURSIVE StringifyAs(_, _)
RECURSIVE Members(_, _)
RECURSIVE Elements(_)
\* JSON.stringify of a string, a time, a boolean, an array of notes or an object
StringifyAs(value, kind) ==
    IF kind = "string" THEN <<Ch.quote, CodeOf(value), Ch.quote>>
    ELSE IF kind = "time" THEN <<Ch.zero + value>>
    ELSE IF kind = "bool" THEN <<IF value THEN Ch.true ELSE Ch.false>>
    ELSE IF kind = "array"
    THEN IF value = <<>> THEN <<Ch.lbracket, Ch.rbracket>>
         ELSE <<Ch.lbracket>> \o Elements(value) \o <<Ch.nl, Ch.rbracket>>
    ELSE LET keys == SelectSeq(Symbols, LAMBDA k : k \in DOMAIN value)
         IN  IF keys = <<>> THEN <<Ch.lbrace, Ch.rbrace>>
             ELSE <<Ch.lbrace>> \o Members(value, keys) \o <<Ch.nl, Ch.rbrace>>

\* the members of an object, own keys only
Members(obj, keys) ==
    LET k == Head(keys)
        member == Indent \o <<Ch.quote, CodeOf(k), Ch.quote, Ch.colon, Ch.space>>
                  \o StringifyAs(obj[k], KindOf(k))
    IN  IF Tail(keys) = <<>> THEN member
        ELSE member \o <<Ch.comma>> \o Members(obj, Tail(keys))

\* the elements of an array
Elements(list) ==
    LET element == Indent \o StringifyAs(Head(list), "object")
    IN  IF Tail(list) = <<>> THEN element
        ELSE element \o <<Ch.comma>> \o Elements(Tail(list))

\* JSON.stringify(data, null, 2)
Stringify(data) == StringifyAs(data, "object")

RECURSIVE SkipWs(_)
SkipWs(text) ==
    IF text # <<>> /\ Head(text) \in {Ch.nl, Ch.space} THEN SkipWs(Tail(text)) ELSE text

\* the parser gives up: JSON.parse throws
Fail == [failed |-> TRUE, v |-> Garbage, rest |-> <<>>]

Parsed(v, rest) == [failed |-> FALSE, v |-> v, rest |-> rest]

RECURSIVE ParseValue(_)
RECURSIVE ParseMembers(_, _)
RECURSIVE ParseElements(_, _)
ParseValue(text0) ==
    LET text == SkipWs(text0)
        n == Len(text)
    IN  IF n = 0 THEN Fail
        ELSE LET c == text[1]
             IN  IF c = Ch.quote
                 THEN IF n >= 3 /\ text[2] > 127 /\ text[2] - 127 <= Len(Symbols)
                         /\ text[3] = Ch.quote
                      THEN Parsed(Symbols[text[2] - 127], SubSeq(text, 4, n))
                      ELSE Fail
                 ELSE IF c \in Ch.zero..(Ch.zero + 9) THEN Parsed(c - Ch.zero, Tail(text))
                 ELSE IF c = Ch.true THEN Parsed(TRUE, Tail(text))
                 ELSE IF c = Ch.false THEN Parsed(FALSE, Tail(text))
                 ELSE IF c = Ch.lbrace THEN ParseMembers(Tail(text), <<>>)
                 ELSE IF c = Ch.lbracket THEN ParseElements(Tail(text), <<>>)
                 ELSE Fail

\* the members after '{' up to '}', added to obj
ParseMembers(text0, obj) ==
    LET text == SkipWs(text0)
        n == Len(text)
    IN  IF n = 0 THEN Fail
        ELSE IF text[1] = Ch.rbrace THEN Parsed(obj, Tail(text))
        ELSE IF text[1] = Ch.comma THEN ParseMembers(Tail(text), obj)
        ELSE LET key == ParseValue(text)
                 after == SkipWs(key.rest)
             IN  IF key.failed \/ after = <<>> \/ Head(after) # Ch.colon THEN Fail
                 ELSE LET val == ParseValue(Tail(after))
                      IN  IF val.failed THEN Fail
                          ELSE ParseMembers(val.rest, MapPut(obj, key.v, val.v))

\* the elements after '[' up to ']', appended to list
ParseElements(text0, list) ==
    LET text == SkipWs(text0)
        n == Len(text)
    IN  IF n = 0 THEN Fail
        ELSE IF text[1] = Ch.rbracket THEN Parsed(list, Tail(text))
        ELSE IF text[1] = Ch.comma THEN ParseElements(Tail(text), list)
        ELSE LET val == ParseValue(text)
             IN  IF val.failed THEN Fail
                 ELSE ParseElements(val.rest, Append(list, val.v))

\* JSON.parse(content): the value, or Garbage when it throws
JsonParse(text) ==
    LET r == ParseValue(text)
    IN  IF r.failed \/ SkipWs(r.rest) # <<>> THEN Garbage ELSE r.v

\* Buffer.toString('base64'): three bytes give four digits, the end is padded
Base64Encode(bytes) ==
    LET n == Len(bytes)
        ByteAt(i) == IF i <= n THEN bytes[i] ELSE 0
    IN  [i \in 1..(4 * ((n + 2) \div 3)) |->
            LET k == 3 * ((i - 1) \div 4)
                j == (i - 1) % 4
            IN  IF j = 0 THEN ByteAt(k + 1) \div 4
                ELSE IF j = 1 THEN (ByteAt(k + 1) % 4) * 16 + ByteAt(k + 2) \div 16
                ELSE IF j = 2
                THEN IF k + 2 <= n THEN (ByteAt(k + 2) % 16) * 4 + ByteAt(k + 3) \div 64
                     ELSE B64.pad
                ELSE IF k + 3 <= n THEN ByteAt(k + 3) % 64 ELSE B64.pad]

\* four digits give three bytes; a last group of two or three gives one or two
DecodeDigits(digits) ==
    LET n == Len(digits)
        last == n % 4
    IN  [i \in 1..(3 * (n \div 4) + (IF last >= 2 THEN last - 1 ELSE 0)) |->
            LET k == 4 * ((i - 1) \div 3)
                j == (i - 1) % 3
            IN  IF j = 0 THEN digits[k + 1] * 4 + digits[k + 2] \div 16
                ELSE IF j = 1 THEN (digits[k + 2] % 16) * 16 + digits[k + 3] \div 4
                ELSE (digits[k + 3] % 4) * 64 + digits[k + 4]]

\* faulty variant: line feeds and padding are taken for digits
Base64DecodeStrict(chars) == DecodeDigits(chars)

\* Buffer.from(content, 'base64'): whatever is not a digit is skipped
Base64Decode(chars) == DecodeDigits(SelectSeq(chars, LAMBDA x : x < B64.pad))

\* the Contents API breaks the base64 text into lines
Wrapped(chars) ==
    LET n == Len(chars)
        lines == IF n = 0 THEN 1 ELSE (n + B64.width - 1) \div B64.width
    IN  [i \in 1..(n + lines) |->
            LET line == (i - 1) \div (B64.width + 1)
                col == (i - 1) % (B64.width + 1)
            IN  IF col = B64.width \/ i = n + lines THEN B64.nl
                ELSE chars[line * B64.width + col + 1]]

RoundTripInit ==
    /\ EngineAtRest
    /\ archived0 = Null
    /\ interval = 5
    /\ timerSet = FALSE
    /\ cur = Null
    /\ nCfg = 0
    /\ peer = Null
    /\ turn = "none"
    /\ wire = <<>>
    /\ mPc = "start"
    /\ mLocal \in Snapshots
    /\ mRemote = Null
    /\ mOut = Pending
    /\ deleted = {}

\* what the encoding steps leave alone
codecFrame ==
    <<repoUrl, act, fileSha, isSyncing, stored, storedInc, remote, ids, calls, puts,
      nEdits, nOther, nCalls, mLocal, mRemote, deleted, archived0, interval, timerSet,
      cur, nCfg, peer, turn>>

\* push(): the content field of the PUT body
PushEncodes ==
    /\ mPc = "start"
    /\ mPc' = "encoded"
    /\ wire' = Base64Encode(Stringify(mLocal))
    /\ UNCHANGED <<codecFrame, mOut>>

\* the store keeps the bytes of the content and answers the next GET with them
ServerReturns ==
    /\ mPc = "encoded"
    /\ mPc' = "fetched"
    /\ wire' = Wrapped(Base64Encode(Base64Decode(wire)))
    /\ UNCHANGED <<codecFrame, mOut>>

\* pull(): the snapshot it returns
PullDecodes ==
    /\ mPc = "fetched"
    /\ mPc' = "decoded"
    /\ mOut' = JsonParse(Base64Decode(wire))
    /\ UNCHANGED <<codecFrame, wire>>

RoundTripNext == PushEncodes \/ ServerReturns \/ PullDecodes

RoundTripSpec == RoundTripInit /\ [][RoundTripNext]_vars

(***************************************************************************)
(* Two clients of one repository that have stopped editing and sync in     *)
(* turn. Each sync is taken at its return, as in StoreSpec: exportData(),  *)
(* the merge with the fetched document, the write of the merged snapshot   *)
(* and importData. Only the content of the document is followed here; its  *)
(* versions are the subject of Spec.                                       *)
(***************************************************************************)
Clients == {"A", "B"}

\* what a client holds when it stops editing: project p1, active or archived,
\* its folder possibly relocated, with note n1 in some state or without it
ClientSnapshots ==
    {SnapshotOf("1.0.0", place1, ProjectWith(path, notes), "none") :
        place1 \in {"active", "archived"},
        path \in {"/x", "/y"},
        notes \in {<<>>} \cup {<<[NewNote("n1", c, 1) EXCEPT !.updatedAt = t]>> :
                                  c \in {"a", "b"}, t \in Times}}

\* the local snapshot of a client: this client's store, or the second client's
LocalOf(c) == IF c = "A" THEN stored ELSE peer

ConvergeInit ==
    /\ repoUrl = "valid"
    /\ act = [pc |-> "done", resp |-> Pending]
    /\ fileSha = NoSha
    /\ isSyncing = FALSE
    /\ stored \in ClientSnapshots
    /\ storedInc = {}
    /\ remote \in {[sha |-> NoSha, data |-> d, inc |-> {}] : d \in {Null, EmptySnapshot}}
    /\ ids = {}
    /\ calls = [c \in Callers |-> IdleCall]
    /\ puts = {}
    /\ nEdits = 0
    /\ nOther = 0
    /\ nCalls = 0
    /\ mPc = "start"
    /\ mLocal = Null
    /\ mRemote = Null
    /\ mOut = Pending
    /\ deleted = {}
    /\ archived0 = Null
    /\ interval = 5
    /\ timerSet = TRUE
    /\ cur = Null
    /\ nCfg = 0
    /\ peer \in ClientSnapshots
    /\ turn \in Clients
    /\ wire = <<>>

\* the sync of the client whose turn it is
SyncBy(c) ==
    /\ turn = c
    /\ LET merged == mergeData(LocalOf(c), remote.data)
       IN  /\ remote' = [remote EXCEPT !.data = merged]
           /\ stored' = IF c = "A" THEN merged ELSE stored
           /\ peer' = IF c = "B" THEN merged ELSE peer
    /\ turn' = CHOOSE d \in Clients : d # c
    /\ UNCHANGED <<repoUrl, act, fileSha, isSyncing, storedInc, ids, calls, puts, nEdits,
                   nOther, nCalls, mPc, mLocal, mRemote, mOut, deleted, archived0,
                   interval, timerSet, cur, nCfg, wire>>

ConvergeNext == \E c \in Clients : SyncBy(c)

\* the timers of both clients keep firing, so the next sync is always made
ConvergeSpec == ConvergeInit /\ [][ConvergeNext]_vars /\ WF_vars(ConvergeNext)

(***************************************************************************)
(* One call of the manager at a time, from the caller to its end: what it  *)
(* waits for (the GitHub session, then the HTTPS response), what the       *)
(* status bar is told, and the settings it reads. The settings may change  *)
(* at any moment (settings editor, sync panel); the server may answer any  *)
(* status, since other clients write the repository. The content of the    *)
(* document and its versions are the subject of Spec.                      *)
(***************************************************************************)
MaxCalls == 2

MaxConfigChanges == 1

\* values of quickNotes.sync.autoSyncInterval: disabled, and the default
Intervals == {0, 5}

RepoUrls == {"", "invalid", "valid"}

\* the snapshot a GET answers with status 200
FetchedDoc == OtherEdit(Doc0, 2)

\* the tokens of a fetched version and of a written one
ShaOf == [fetched |-> 1, written |-> 2]

\* a call as it starts: what it was given, the settings and the manager's fields
\* at that moment, and nothing done yet
NewCall(kind, by, log) ==
    [kind |-> kind, by |-> by, pc |-> "start", req |-> "none", attempt |-> 1,
     localData |-> stored, merged |-> Null, log |-> log, fired |-> <<>>,
     nApi |-> 0, nSent |-> 0,
     url0 |-> repoUrl, interval0 |-> interval, sha0 |-> fileSha, flag0 |-> isSyncing,
     result |-> "none", err |-> "none", ret |-> Null]

\* the call with the manager's fields it reads and writes
Machine(call) == [call |-> call, fileSha |-> fileSha, isSyncing |-> isSyncing]

\* updateSyncStatusBar(syncStatusBar, status), by the listener or by the caller
Emit(m, status) == [m EXCEPT !.call.log = Append(@, status)]

\* this._onSyncStatusChanged.fire(status): the manager's own events, which the
\* listener of activate passes to the status bar
Fire(m, status) == Emit([m EXCEPT !.call.fired = Append(@, status)], status)

\* the call returns to its caller: syncNow shows 'synced', activation does when
\* something was fetched, the timer callback and saveData show nothing
Return(m, data) ==
    LET shown == m.call.by = "user" \/ (m.call.by = "activate" /\ data # Null)
        m1 == IF shown THEN Emit(m, "synced") ELSE m
    IN  [m1 EXCEPT !.call.pc = "done", !.call.result = "returned", !.call.ret = data]

\* the call throws to its caller: syncNow and activation show 'error', the timer
\* callback and saveData's catch only log
Raise(m, kind) ==
    LET shown == m.call.by \in {"user", "activate"}
        m1 == IF shown THEN Emit(m, "error") ELSE m
    IN  [m1 EXCEPT !.call.pc = "done", !.call.result = "raised", !.call.err = kind]

\* _apiRequest is entered: it awaits the session first
ApiRequest(m, method) ==
    [m EXCEPT !.call.pc = "session", !.call.req = method, !.call.nApi = @ + 1]

RECURSIVE StartPull(_)
RECURSIVE AfterPull(_, _)
RECURSIVE StartPush(_)
RECURSIVE PushFails(_, _)
\* pull() throws: sync does not catch it unless isConflict is set, which pull
\* never does
PullFails(m, kind) == Raise(m, kind)

\* pull() up to its request
StartPull(m) ==
    IF ~isConfigured THEN AfterPull(m, Null)
    ELSE IF ~RepoParses THEN PullFails(m, "config")
    ELSE ApiRequest(m, "GET")

\* pull() returned: to the caller, or on to sync's merge and push
AfterPull(m, remoteData) ==
    IF m.call.kind = "pull" THEN Return(m, remoteData)
    ELSE StartPush([m EXCEPT !.call.merged = MergedFor(m.call, remoteData)])

\* push() returned
PushReturns(m) ==
    Return(m, IF m.call.kind = "sync" THEN m.call.merged ELSE Null)

\* push() up to its request
StartPush(m) ==
    IF ~isConfigured \/ m.isSyncing THEN PushReturns(m)
    ELSE LET m1 == Fire([m EXCEPT !.isSyncing = TRUE], "syncing")
         IN  IF ~RepoParses THEN PushFails(m1, "config")
             ELSE ApiRequest(m1, "PUT")

\* push()'s catch and finally, then sync's catch
PushFails(m, kind) ==
    LET m1 == Fire([m EXCEPT !.isSyncing = FlagAfterPush(kind),
                             !.fileSha = ShaAfterFailure(m.fileSha, kind)], "error")
    IN  IF m.call.kind = "sync" /\ IsConflict(kind) /\ RetryAllowed(m.call.attempt)
        THEN StartPull([m1 EXCEPT !.call.attempt = @ + 1])
        ELSE Raise(m1, kind)

\* faulty variant: the success path fires nothing
PushSucceedsQuietly(m) ==
    PushReturns([m EXCEPT !.isSyncing = FlagAfterPush("200"),
                          !.fileSha = ShaAfterWrite(m.fileSha, ShaOf.written)])

\* push() after its PUT was answered 2xx
PushSucceeds(m) ==
    PushReturns(Fire([m EXCEPT !.isSyncing = FlagAfterPush("200"),
                               !.fileSha = ShaAfterWrite(m.fileSha, ShaOf.written)],
                     "synced"))

\* no call is in progress
NoCall == IF cur = Null THEN TRUE ELSE cur.result # "none"

\* a call is in progress and at this point
CallAt(pc) == cur # Null /\ cur.result = "none" /\ cur.pc = pc

CallInit ==
    /\ repoUrl \in RepoUrls
    /\ interval \in Intervals
    /\ timerSet = FALSE
    /\ act = [pc |-> "init", resp |-> Pending]
    /\ fileSha = NoSha
    /\ isSyncing = FALSE
    /\ stored = Doc0
    /\ storedInc = {}
    /\ remote = [sha |-> NoSha, data |-> Null, inc |-> {}]
    /\ ids = {}
    /\ calls = [c \in Callers |-> IdleCall]
    /\ puts = {}
    /\ nEdits = 0
    /\ nOther = 0
    /\ nCalls = 0
    /\ mPc = "start"
    /\ mLocal = Null
    /\ mRemote = Null
    /\ mOut = Pending
    /\ deleted = {}
    /\ archived0 = Null
    /\ cur = Null
    /\ nCfg = 0
    /\ peer = Null
    /\ turn = "none"
    /\ wire = <<>>

\* what the steps of a call leave alone
callFrame ==
    <<stored, storedInc, remote, ids, calls, puts, nEdits, nOther, mPc, mLocal, mRemote,
      mOut, deleted, archived0, peer, turn, wire>>

\* the step has run the call up to m; when the activation's pull has ended,
\* activate goes on to set up the timer
Settle(m) ==
    /\ cur' = m.call
    /\ fileSha' = m.fileSha
    /\ isSyncing' = m.isSyncing
    /\ IF m.call.by = "activate"
       THEN IF m.call.result # "none"
            THEN /\ act' = [act EXCEPT !.pc = "done"]
                 /\ timerSet' = (isConfigured /\ interval > 0)
            ELSE /\ act' = [act EXCEPT !.pc = "pull"]
                 /\ UNCHANGED timerSet
       ELSE UNCHANGED <<act, timerSet>>
    /\ UNCHANGED <<callFrame, repoUrl, interval, nCfg>>

\* activate: the pull on activation when configured, then the timer
Activate ==
    /\ act.pc = "init"
    /\ IF isConfigured
       THEN /\ nCalls' = nCalls + 1
            /\ Settle(StartPull(Machine(NewCall("pull", "activate", <<>>))))
       ELSE /\ act' = [act EXCEPT !.pc = "done"]
            /\ timerSet' = (isConfigured /\ interval > 0)
            /\ UNCHANGED <<callFrame, repoUrl, interval, nCfg, cur, fileSha, isSyncing,
                           nCalls>>

\* the setInterval callback
TimerFires ==
    /\ act.pc = "done"
    /\ timerSet
    /\ NoCall
    /\ nCalls < MaxCalls
    /\ nCalls' = nCalls + 1
    /\ Settle(StartPull(Machine(NewCall("sync", "timer", <<>>))))

\* quickNotes.syncNow: a warning when not configured, else the status bar is
\* set to 'syncing' and sync is called
SyncNow ==
    /\ act.pc = "done"
    /\ NoCall
    /\ isConfigured
    /\ nCalls < MaxCalls
    /\ nCalls' = nCalls + 1
    /\ Settle(StartPull(Machine(NewCall("sync", "user", <<"syncing">>))))

\* saveData after a command: the background push when configured
SaveData ==
    /\ act.pc = "done"
    /\ NoCall
    /\ isConfigured
    /\ nCalls < MaxCalls
    /\ nCalls' = nCalls + 1
    /\ Settle(StartPush(Machine([NewCall("push", "save", <<>>) EXCEPT !.merged = stored])))

\* getSession resolves with a session: the HTTPS request is sent, its 30 s
\* timeout armed
SessionGranted ==
    /\ CallAt("session")
    /\ nCalls' = nCalls
    /\ Settle(Machine([cur EXCEPT !.pc = "sent", !.nSent = @ + 1]))

\* getSession rejects or resolves with nothing: the sign-in was dismissed
SessionRefused ==
    /\ CallAt("session")
    /\ nCalls' = nCalls
    /\ Settle(IF cur.req = "GET" THEN PullFails(Machine(cur), "auth")
              ELSE PushFails(Machine(cur), "auth"))

\* the response of a GET: 200 with the document or with one that does not
\* parse, 404, or an error status
GetResponds(status) ==
    /\ CallAt("sent")
    /\ cur.req = "GET"
    /\ nCalls' = nCalls
    /\ LET m == Machine(cur)
       IN  Settle(IF status = "404" THEN AfterPull([m EXCEPT !.fileSha = NoSha], Null)
                  ELSE IF status = "200"
                  THEN AfterPull([m EXCEPT !.fileSha = ShaOf.fetched], FetchedDoc)
                  ELSE IF status = "200 garbage"
                  THEN PullFails([m EXCEPT !.fileSha = ShaOf.fetched], "decode")
                  ELSE PullFails(m, status))

\* the response of a PUT
PutResponds(status) ==
    /\ CallAt("sent")
    /\ cur.req = "PUT"
    /\ nCalls' = nCalls
    /\ Settle(IF status = "200" THEN PushSucceeds(Machine(cur))
              ELSE PushFails(Machine(cur), status))

\* the request fails as _apiRequest's promise rejects
RequestFails(kind) ==
    /\ CallAt("sent")
    /\ nCalls' = nCalls
    /\ Settle(IF cur.req = "GET" THEN PullFails(Machine(cur), kind)
              ELSE PushFails(Machine(cur), kind))

\* req.on('error')
RequestErrors == RequestFails("network")

\* req.setTimeout(30000): 'Request timed out'
RequestTimesOut == RequestFails("timeout")

\* the user changes a setting of quickNotes.sync
ChangeSettings ==
    /\ nCfg < MaxConfigChanges
    /\ nCfg' = nCfg + 1
    /\ \/ repoUrl' \in RepoUrls \ {repoUrl} /\ interval' = interval
       \/ interval' \in Intervals \ {interval} /\ repoUrl' = repoUrl
    /\ UNCHANGED <<callFrame, act, timerSet, cur, fileSha, isSyncing, nCalls>>

CallNext ==
    \/ Activate
    \/ TimerFires
    \/ SyncNow
    \/ SaveData
    \/ SessionGranted
    \/ SessionRefused
    \/ \E status \in {"200", "200 garbage", "404", "500"} : GetResponds(status)
    \/ \E status \in {"200", "409", "422", "500"} : PutResponds(status)
    \/ RequestErrors
    \/ RequestTimesOut
    \/ ChangeSettings

CallSpec == CallInit /\ [][CallNext]_vars

(***************************************************************************)
(* Properties of the merge engine.                                         *)
(***************************************************************************)
\* a merge of two present snapshots has been made
MergedBoth == mPc = "merged" /\ mLocal # Null /\ mRemote # Null

\* C11: merge(local, absent) returns local unchanged and merge(absent, remote)
\* returns remote unchanged.
MergeWithAbsent ==
    mPc = "merged" =>
        /\ mRemote = Null => mOut = mLocal
        /\ mLocal = Null => mOut = mRemote

\* C11 witness: both cases need one call each; the one with an absent local
\* snapshot and a remote one that holds notes
MergedWithAbsentLocal ==
    /\ mPc = "merged"
    /\ mLocal = Null
    /\ mRemote # Null
    /\ NoteIds(mRemote) # {}
    /\ mOut # Null

\* C12: merging the empty snapshot of a first local use with a present remote
\* snapshot returns a snapshot equal to the remote one in every field.
MergeEmptyLocalGivesRemote ==
    (MergedBoth /\ mLocal = EmptySnapshot) => mOut = mRemote

\* C13: a note id that occurs in both snapshots with different updatedAt occurs
\* exactly once in the merged snapshot, as the note with the later updatedAt,
\* wherever the note sits in each snapshot.
NewerNoteWinsOnce ==
    MergedBoth =>
        \A sl \in Slots(mLocal), sr \in Slots(mRemote) :
            LET l == NoteAt(mLocal, sl)
                r == NoteAt(mRemote, sr)
            IN  (/\ l.id = r.id
                 /\ Has(l, "updatedAt") /\ Has(r, "updatedAt")
                 /\ l.updatedAt # r.updatedAt) =>
                    /\ Cardinality(SlotsOfId(mOut, l.id)) = 1
                    /\ \A so \in SlotsOfId(mOut, l.id) :
                            NoteAt(mOut, so) = IF l.updatedAt > r.updatedAt THEN l ELSE r

\* C14: in a project present on both sides, a local and a remote note with the
\* same id, equal timestamps and different content: the merged project holds
\* the local note and not the remote one.
LocalWinsTies ==
    MergedBoth =>
        \A m \in MapNames :
            \A p \in DOMAIN mLocal[m] \cap DOMAIN mRemote[m] :
                \A l \in NoteSet(mLocal[m][p].notes),
                   r \in NoteSet(mRemote[m][p].notes) :
                    (l.id = r.id /\ TimeOf(l) = TimeOf(r) /\ l.content # r.content) =>
                        /\ l \in NoteSet(mOut[m][p].notes)
                        /\ r \notin NoteSet(mOut[m][p].notes)

\* C14 witness: a tie between a note with updatedAt and one that has createdAt only
TieMerged ==
    /\ MergedBoth
    /\ \E m \in MapNames :
        \E p \in DOMAIN mLocal[m] \cap DOMAIN mRemote[m] :
            \E l \in NoteSet(mLocal[m][p].notes),
               r \in NoteSet(mRemote[m][p].notes) :
                /\ l.id = r.id /\ TimeOf(l) = TimeOf(r) /\ l.content # r.content
                /\ ~Has(l, "updatedAt") /\ Has(r, "updatedAt")
                /\ l \in NoteSet(mOut[m][p].notes)

\* C15: each merged map has the union of the keys of both sides; a project of
\* one side only is taken unchanged; a project of both sides has every field
\* but its notes from the local side, and the notes of both sides.
ProjectsMergedByKey ==
    MergedBoth =>
        \A m \in MapNames :
            LET lm == mLocal[m]
                rm == mRemote[m]
            IN  /\ DOMAIN mOut[m] = DOMAIN lm \cup DOMAIN rm
                /\ \A p \in (DOMAIN lm) \ DOMAIN rm : mOut[m][p] = lm[p]
                /\ \A p \in (DOMAIN rm) \ DOMAIN lm : mOut[m][p] = rm[p]
                /\ \A p \in DOMAIN lm \cap DOMAIN rm :
                        /\ DOMAIN mOut[m][p] = DOMAIN lm[p]
                        /\ \A k \in (DOMAIN lm[p]) \ {"notes"} : mOut[m][p][k] = lm[p][k]
                        /\ {n.id : n \in NoteSet(mOut[m][p].notes)} =
                                {n.id : n \in NoteSet(lm[p].notes) \cup NoteSet(rm[p].notes)}

\* C15 witness: a project held by both sides under different paths, one held
\* by the local side only and archived projects on both sides
ScalarsDiffer ==
    /\ MergedBoth
    /\ "p1" \in DOMAIN mLocal.archivedProjects \cap DOMAIN mRemote.archivedProjects
    /\ mLocal.archivedProjects["p1"].path # mRemote.archivedProjects["p1"].path
    /\ "p2" \in (DOMAIN mLocal.projects) \ DOMAIN mRemote.projects
    /\ mOut.archivedProjects["p1"].path = mLocal.archivedProjects["p1"].path

\* C16: merge(X, X) is structurally equal to X.
MergeIdempotent ==
    (mPc = "merged" /\ mLocal = mRemote) => mOut = mLocal

\* C16 witness: a snapshot with two notes in a project, merged with itself
MergedWithItself ==
    /\ MergedBoth
    /\ mLocal = mRemote
    /\ "p1" \in DOMAIN mLocal.projects
    /\ Len(mLocal.projects["p1"].notes) = 2
    /\ "p2" \in DOMAIN mLocal.archivedProjects

\* the two snapshots share no project id and no note id
DisjointArgs ==
    /\ ProjectIds(mLocal) \cap ProjectIds(mRemote) = {}
    /\ NoteIds(mLocal) \cap NoteIds(mRemote) = {}

\* C17: on snapshots that share no project id and no note id, merge(A, B) and
\* merge(B, A) hold the same projects, archived projects and notes.
MergeCommutesOnDisjoint ==
    (MergedBoth /\ DisjointArgs) =>
        LET swapped == mergeData(mRemote, mLocal)
        IN  /\ mOut.projects = swapped.projects
            /\ mOut.archivedProjects = swapped.archivedProjects
            /\ NoteIds(mOut) = NoteIds(swapped)

\* C17 witness: two disjoint snapshots that each hold a project with a note
DisjointMerged ==
    /\ MergedBoth
    /\ DisjointArgs
    /\ NoteIds(mLocal) # {}
    /\ NoteIds(mRemote) # {}
    /\ ProjectIds(mOut) = {"p1", "p2"}

(***************************************************************************)
(* Properties of the store across commands and syncs.                      *)
(***************************************************************************)
\* no project id is a key of both maps
HeldOnce(data) == DOMAIN data.projects \cap DOMAIN data.archivedProjects = {}

\* C18: in every local snapshot the commands and syncs reach, and in every
\* merge result, no project id is a key of both projects and archivedProjects
\* (the remote snapshots merged keep to this themselves).
ProjectInOneMapOnly ==
    /\ HeldOnce(stored)
    /\ mPc = "merged" => HeldOnce(mOut)

\* C19: what a sync returns holds every note and project that either side
\* held when it merged, those deleted on the other side included, and the
\* import makes it the local snapshot.
DeletionsDoNotPropagate ==
    (mPc = "merged" /\ mRemote # Null) =>
        /\ stored = mOut
        /\ NoteIds(mLocal) \cup NoteIds(mRemote) \subseteq NoteIds(stored)
        /\ ProjectIds(mLocal) \cup ProjectIds(mRemote) \subseteq ProjectIds(stored)
        /\ \A m \in MapNames : DOMAIN mRemote[m] \subseteq DOMAIN stored[m]

\* C19 witness: a note deleted locally since the last import, in a project the
\* local side still holds, is back after the sync
DeletedNoteIsBack ==
    /\ mPc = "merged"
    /\ mRemote # Null
    /\ \E id \in deleted :
        /\ id \in NoteIds(mRemote)
        /\ id \notin NoteIds(mLocal)
        /\ id \in NoteIds(stored)
    /\ "p1" \in DOMAIN mLocal.projects

\* C27: archiveProject followed by restoreProject of the same project leaves the
\* snapshot equal to the one before the archive: archivedAt is added and removed
\* again, the notes and the other fields are kept.
ArchiveRestoreRoundTrip ==
    (archived0 # Null /\ archived0.restored) => stored = archived0.before

\* the ids of the notes of an array
IdsOf(notes) == {notes[i].id : i \in 1..Len(notes)}

\* an id is at two positions of the array
HasRepeatedId(notes) ==
    \E i, j \in 1..Len(notes) : i # j /\ notes[i].id = notes[j].id

\* C28: for any two note arrays, arrays with repeated ids included, _mergeNotes
\* returns at most one note per id, and the ids of the result are exactly the
\* union of the ids of the two arrays.
MergedNotesOnePerId ==
    mPc = "mergedNotes" =>
        /\ ~HasRepeatedId(mOut)
        /\ IdsOf(mOut) = IdsOf(mLocal) \cup IdsOf(mRemote)

\* arrays that both repeat an id have been merged
RepeatedIdsMerged ==
    /\ mPc = "mergedNotes"
    /\ HasRepeatedId(mLocal)
    /\ HasRepeatedId(mRemote)
    /\ IdsOf(mLocal) # IdsOf(mRemote)

(***************************************************************************)
(* Properties of the callers of sync.                                      *)
(***************************************************************************)
\* the snapshot holds this note, or the note with a later edit
HoldsNoteOrNewer(data, note) ==
    \E slot \in SlotsOfId(data, note.id) :
        TimeGe(TimeOf(NoteAt(data, slot)), TimeOf(note))

\* the step in which sync() returns to this caller, which imports what it returned
ImportStep(c) ==
    /\ InFlight(c)
    /\ calls'[c].pc = "done"
    /\ calls'[c].result = "returned"

\* C29: a local edit made between exportData() and importData(merged) is not
\* lost: the notes the store holds when the sync returns, added or edited since
\* the export included, are in the store after the import, for a sync started by
\* the user and for one started by the timer.
EditDuringSyncKept ==
    [][\A c \in Callers :
        ImportStep(c) =>
            \A slot \in Slots(stored) : HoldsNoteOrNewer(stored', NoteAt(stored, slot))]_vars

(***************************************************************************)
(* Properties of two clients syncing in turn.                              *)
(***************************************************************************)
\* both local snapshots equal the remote document: a fixed point of sync
Converged == stored = remote.data /\ peer = remote.data

\* C30: two clients that stop editing and then sync in turn reach a fixed point
\* after finitely many syncs: both local snapshots equal the remote document, and
\* further syncs no longer change its content.
SyncsConverge == <>[]Converged

(***************************************************************************)
(* Properties of the encoding.                                             *)
(***************************************************************************)
\* C25: the snapshot decoded by a fetch equals the snapshot encoded by the write
\* that produced the fetched version, for every well-formed snapshot, the ones
\* with empty maps included.
RoundTrip == mPc = "decoded" => mOut = mLocal

\* a snapshot with an empty map and one with a project without notes went round,
\* through a text of several lines
WentRound ==
    /\ mPc = "decoded"
    /\ mLocal.archivedProjects = <<>>
    /\ "p1" \in DOMAIN mLocal.projects
    /\ mLocal.projects["p1"].notes = <<>>
    /\ Len(wire) > 2 * B64.width

(***************************************************************************)
(* Properties of a call of the manager.                                    *)
(***************************************************************************)
\* the call in progress waits for something outside the program
Waiting == CallAt("session") \/ CallAt("sent")

\* C21: every pull, push or sync call eventually completes: no request or step,
\* the acquisition of the credential included, waits forever; a request that gets
\* no answer fails with a timeout error. Whatever a call waits for, the timeout
\* that ends the wait is armed.
EveryWaitTimesOut == Waiting => ENABLED RequestTimesOut

\* the statuses the status bar was given since the call started
LastStatus == cur.log[Len(cur.log)]

\* C22: the status observer follows every sync call made with a remote
\* configured: 'syncing' is shown when the call starts, the last status shown is
\* 'synced' when it returns and 'error' when it fails at any step, for a sync
\* started by the timer and for one started by the user.
StatusFollowsSync ==
    (cur # Null /\ cur.kind = "sync" /\ cur.url0 # "") =>
        /\ cur.log # <<>>
        /\ cur.log[1] = "syncing"
        /\ cur.result = "returned" => LastStatus = "synced"
        /\ cur.result = "raised" => LastStatus = "error"

\* C23: with no repository URL configured pull, push and sync are no-ops: no
\* request is made, nothing is thrown, neither 'syncing' nor 'error' is shown,
\* the version token and the in-progress flag are unchanged, and sync returns the
\* local snapshot unchanged.
UnconfiguredCallIsNoOp ==
    (cur # Null /\ cur.url0 = "") =>
        /\ cur.result = "returned"
        /\ cur.nApi = 0
        /\ \A i \in 1..Len(cur.log) : cur.log[i] \notin {"syncing", "error"}
        /\ fileSha = cur.sha0
        /\ isSyncing = cur.flag0
        /\ cur.kind = "sync" => cur.ret = cur.localData

\* sync was called with no URL configured while a version token was held
UnconfiguredSyncMade ==
    /\ cur # Null
    /\ cur.url0 = ""
    /\ cur.kind = "sync"
    /\ cur.sha0 # NoSha

\* C24: with a URL configured that has not the owner/repository shape, pull,
\* push and sync fail with a configuration error before any request is made:
\* the version token is unchanged and the in-progress flag is clear when the
\* call ends.
InvalidUrlFailsBeforeRequest ==
    (cur # Null /\ cur.url0 = "invalid") =>
        /\ cur.result = "raised"
        /\ cur.err = "config"
        /\ cur.nApi = 0
        /\ fileSha = cur.sha0
        /\ ~isSyncing

\* push was called with such a URL while a version token was held
InvalidUrlPushMade ==
    /\ cur # Null
    /\ cur.url0 = "invalid"
    /\ cur.kind = "push"
    /\ cur.sha0 # NoSha
    /\ cur.log = <<"syncing", "error">>

\* C26: when the configured interval is 0 or less no timer-driven sync is ever
\* started; timer-driven syncs occur only when a remote is configured and the
\* interval is positive.
TimerSyncOnlyWhenEnabled ==
    (cur # Null /\ cur.by = "timer") => (cur.interval0 > 0 /\ cur.url0 # "")

(***************************************************************************)
(* Further properties of the merge engine.                                 *)
(***************************************************************************)
\* the notes a side holds in this project of this map
NotesHeld(data, map, p) ==
    IF p \in DOMAIN data[map] THEN NoteSet(NotesOf(data[map][p])) ELSE {}

\* C35: merge never fabricates or blends notes: every note of a merged project
\* is identical, field for field, to the note with the same id in that project on
\* the local side or on the remote side.
MergeKeepsNotesWhole ==
    MergedBoth =>
        \A slot \in Slots(mOut) :
            NoteAt(mOut, slot) \in NotesHeld(mLocal, slot[1], slot[2])
                                   \cup NotesHeld(mRemote, slot[1], slot[2])

\* both sides held a note of one id with different fields, one of them without
\* updatedAt, and the local one won
UnlikeNotesMerged ==
    /\ MergedBoth
    /\ \E slot \in Slots(mOut) :
        \E l \in NotesHeld(mLocal, slot[1], slot[2]),
           r \in NotesHeld(mRemote, slot[1], slot[2]) :
            /\ l.id = r.id
            /\ l.content # r.content
            /\ DOMAIN l # DOMAIN r
            /\ NoteAt(mOut, slot) = l

(***************************************************************************)
(* Further properties of the sync engine: the background push.             *)
(***************************************************************************)
\* C32: the in-flight flag is true only while a push is executing: every push
\* that sets it clears it on every exit path, so the flag is false whenever no
\* push is in progress, and no later push is skipped because of a push that has
\* ended.
FlagOnlyWhilePushRuns == isSyncing <=> puts # {}

\* a push of a sync call ended in an error and one ended in success, and no push
\* is in progress
PushesEndedBothWays ==
    /\ puts = {}
    /\ ~isSyncing
    /\ \E c \in Callers : calls[c].result = "raised" /\ calls[c].errFrom = "write"
    /\ \E c \in Callers : calls[c].result = "returned" /\ calls[c].nWrite > 0

\* the step in which the background push p, rejected with a conflict, ends
BgConflictEnds(p) ==
    /\ p \in puts
    /\ p.owner = "bg"
    /\ p.phase = "409"
    /\ \A q \in puts' : q.rid # p.rid

SyncingIsClosedOnce ==
    cur # Null =>
        /\ \A i \in 1..Len(cur.fired) :
            IF i % 2 = 1 THEN cur.fired[i] = "syncing"
            ELSE cur.fired[i] \in {"synced", "error"}
        /\ ~isSyncing => Len(cur.fired) % 2 = 0

\* a sync whose first push was rejected with a conflict and whose retry was
\* written has ended
SyncingClosedTwice ==
    /\ cur # Null
    /\ cur.result = "returned"
    /\ cur.fired = <<"syncing", "error", "syncing", "synced">>

(***************************************************************************)
(* Further properties of saveData's background push.                       *)
(***************************************************************************)
\* the background push p ends in this step
BgPushEnds(p) ==
    /\ p \in puts
    /\ p.owner = "bg"
    /\ \A q \in puts' : q.rid # p.rid

\* C34: a background push never fails or rolls back the mutation that triggered
\* it: the step of the command leaves the new data in the store whether its push
\* is sent, skipped or throws at once, and the step in which the push ends, with
\* a success, a conflict or a failure, leaves the store as it is and raises
\* nothing in any caller.
BgPushKeepsEdit ==
    [][/\ nEdits' # nEdits =>
            /\ stored' # stored
            /\ \E note \in NoteSet(stored'.projects["p1"].notes) :
                    note.content = "l" /\ note.updatedAt = Now
       /\ \A p \in puts :
            BgPushEnds(p) =>
                /\ stored' = stored
                /\ \A c \in Callers : /\ calls'[c].pc = calls[c].pc
                                       /\ calls'[c].result = calls[c].result
                /\ act' = act]_vars

\* the one edit made was pushed in the background, the push failed and nothing
\* was written; the edit is in the store
BgPushFailedEditStored ==
    /\ isConfigured /\ RepoParses
    /\ nEdits = 1 /\ nOther = 0 /\ nCalls = 0
    /\ puts = {}
    /\ remote.sha = NoSha
    /\ \E note \in NoteSet(stored.projects["p1"].notes) : note.content = "l"

====
